---- MODULE Spec2Model ----
(***************************************************************************)
(* Barbershop booking backend.                                             *)
(*                                                                         *)
(* Two applications live in the repository:                                *)
(*   - the Reserva application (src/app/main.py, src/app/crud.py,          *)
(*     src/app/routers/reservas.py, src/app/schemas.py);                   *)
(*   - the Barber/Service/Appointment application (src/main.py,            *)
(*     src/app/models.py, src/app/routes/*.py).                            *)
(* Each request runs as one request-scoped transaction, so one action is   *)
(* one whole request: validation, handler body, commit.                    *)
(***************************************************************************)
EXTENDS Integers, Sequences, FiniteSets, TLC

VARIABLES
    app,              \* which application is deployed: "reservas" or "citas"
    today,            \* date.today(), as a day number
    reservas,         \* table reservas: id -> row
    next_reserva_id,  \* next id the reservas table assigns
    barbers,          \* table barbers: id -> row
    next_barber_id,
    services,         \* table services: id -> row
    next_service_id,
    appointments,     \* table appointments: id -> row
    next_appointment_id,
    in_flight,        \* per worker: the create request it is in the middle of
    active_sessions,  \* auth.active_sessions: token -> session
    next_token,       \* the next token secrets.token_urlsafe hands out
    now,              \* datetime.utcnow(), in hours
    last              \* the last request and its response

vars == <<app, today, reservas, next_reserva_id, barbers, next_barber_id,
          services, next_service_id, appointments, next_appointment_id,
          in_flight, active_sessions, next_token, now, last>>

session_vars == <<active_sessions, next_token, now>>

reserva_vars == <<reservas, next_reserva_id>>
cita_vars == <<barbers, next_barber_id, services, next_service_id,
               appointments, next_appointment_id>>

(***************************************************************************)
(* Bounds of the model.                                                    *)
(***************************************************************************)
MaxReservas == 2       \* reservas created in one run

(***************************************************************************)
(* HTTP status codes used by the routers.                                  *)
(***************************************************************************)
HTTP_200_OK == 200
HTTP_201_CREATED == 201
HTTP_204_NO_CONTENT == 204
HTTP_400_BAD_REQUEST == 400
HTTP_401_UNAUTHORIZED == 401
HTTP_404_NOT_FOUND == 404
HTTP_422_UNPROCESSABLE_ENTITY == 422
HTTP_500_INTERNAL_SERVER_ERROR == 500

(***************************************************************************)
(* Reserva application: values.                                            *)
(***************************************************************************)
CONFIRMADA == "confirmada"
CANCELADA == "cancelada"
EstadoReserva == {CONFIRMADA, CANCELADA}

\* An hora is the string "HH:MM", kept as its four digits <<H, H, M, M>>.
\* f"{h:02d}:{m:02d}"
FormatHora(h, m) == <<h \div 10, h % 10, m \div 10, m % 10>>

\* int(v.split(':')[0])
HoraInt(v) == 10 * v[1] + v[2]

\* String comparison of two "HH:MM" values (used by ORDER BY hora).
HoraLess(a, b) ==
    \E i \in 1..4 : a[i] < b[i] /\ \A j \in 1..(i - 1) : a[j] = b[j]

\* Opening hours that include the hour 20.
validar_hora_until_20(v) ==
    LET hora_int == HoraInt(v)
    IN  ~(hora_int < 9 \/ hora_int > 20)

\* ReservaBase.validar_hora / ReservaUpdate.validar_hora
validar_hora(v) ==
    LET hora_int == HoraInt(v)
    IN  ~(hora_int < 9 \/ hora_int >= 20)

\* ReservaBase.validar_fecha / ReservaUpdate.validar_fecha: a fecha is a
\* day number; it is rejected when it is before today.
validar_fecha(v) == ~(v < today)

\* The requests of the model.
Fechas == {1, 2}        \* today = 1
Horas == {FormatHora(9, 0), FormatHora(9, 30), FormatHora(20, 0)}
Nombres == {"Juan"}
Emails == {"juan@email.com"}
Servicios == {"Corte"}
ReservaIds == 1..MaxReservas

ReservaCreate ==
    [nombre_cliente : Nombres, email : Emails, fecha : Fechas, hora : Horas,
     servicio : Servicios]

\* ReservaUpdate.model_dump(exclude_unset=True): only the supplied fields.
\* The requests of the model change fecha, hora and estado and supply no
\* explicit null.
UpdateFields == {"fecha", "hora", "estado"}
UpdateValue(field, n, f, h, e) ==
    CASE field = "nombre_cliente" -> n
      [] field = "fecha" -> f
      [] field = "hora" -> h
      [] field = "estado" -> e
\* The values a request may give to a field it supplies (one value when the
\* field is not supplied, so that no request is listed twice).
FieldValues(field, fs, values) ==
    IF field \in fs THEN values ELSE {CHOOSE v \in values : TRUE}
ReservaUpdateOver(fs) ==
    { [field \in fs |-> UpdateValue(field, n, f, h, e)] :
        n \in FieldValues("nombre_cliente", fs, Nombres),
        f \in FieldValues("fecha", fs, Fechas),
        h \in FieldValues("hora", fs, Horas),
        e \in FieldValues("estado", fs, EstadoReserva) }
ReservaUpdate == UNION { ReservaUpdateOver(fs) : fs \in SUBSET UpdateFields }

NoReserva ==
    [id |-> 0, nombre_cliente |-> "", email |-> "", fecha |-> 0,
     hora |-> FormatHora(0, 0), servicio |-> "", estado |-> "", created_at |-> 0]

NoRequest == [none |-> TRUE]

\* The last request and its response: the operation, the id it named (or
\* was given), its body, the status code, the row the handler loaded before
\* acting, and the list a query returned.
Response(op, id, req, status, old, result) ==
    [op |-> op, id |-> id, req |-> req, status |-> status, old |-> old,
     result |-> result]

(***************************************************************************)
(* Reserva application: crud.py                                            *)
(***************************************************************************)
\* crud.get_reserva: the row, or None (here: the empty set).
get_reserva(db, reserva_id) ==
    IF reserva_id \in DOMAIN db THEN {db[reserva_id]} ELSE {}

\* check_reserva_duplicada without the exclusion of the row being updated.
check_reserva_duplicada_no_exclusion(db, fecha, hora, reserva_id) ==
    \E i \in DOMAIN db :
        /\ db[i].fecha = fecha
        /\ db[i].hora = hora
        /\ db[i].estado = CONFIRMADA

\* check_reserva_duplicada without the filter on estado.
check_reserva_duplicada_any_estado(db, fecha, hora, reserva_id) ==
    \E i \in DOMAIN db :
        /\ db[i].fecha = fecha
        /\ db[i].hora = hora
        /\ (reserva_id # 0 => i # reserva_id)

\* crud.check_reserva_duplicada; reserva_id = 0 stands for None ("if
\* reserva_id:" is false for both).
check_reserva_duplicada(db, fecha, hora, reserva_id) ==
    \E i \in DOMAIN db :
        /\ db[i].fecha = fecha
        /\ db[i].hora = hora
        /\ db[i].estado = CONFIRMADA
        /\ (reserva_id # 0 => i # reserva_id)

\* The id the reservas table gives a new row: ids are assigned in sequence
\* and an id is not assigned twice.
AssignReservaId == next_reserva_id

\* The row crud.create_reserva inserts.
NewReserva(id, reserva) ==
    [id |-> id,
     nombre_cliente |-> reserva.nombre_cliente,
     email |-> reserva.email,
     fecha |-> reserva.fecha,
     hora |-> reserva.hora,
     servicio |-> reserva.servicio,
     estado |-> CONFIRMADA,
     created_at |-> today]

\* for field, value in update_data.items(): setattr(db_reserva, field, value)
ApplyUpdate(row, update_data) ==
    [field \in DOMAIN row |->
        IF field \in DOMAIN update_data THEN update_data[field] ELSE row[field]]

\* Request validation of ReservaCreate (pydantic, before the handler runs).
ReservaCreateValid(reserva) ==
    validar_fecha(reserva.fecha) /\ validar_hora(reserva.hora)

\* Request validation of ReservaUpdate.
ReservaUpdateValid(upd) ==
    /\ "fecha" \in DOMAIN upd => validar_fecha(upd.fecha)
    /\ "hora" \in DOMAIN upd => validar_hora(upd.hora)

\* POST /reservas/  (crear_reserva -> crud.create_reserva)
create_reserva(reserva) ==
    /\ IF ~ReservaCreateValid(reserva)
       THEN /\ last' = Response("create_reserva", 0, reserva,
                                HTTP_422_UNPROCESSABLE_ENTITY, NoReserva, <<>>)
            /\ UNCHANGED reserva_vars
       ELSE IF check_reserva_duplicada(reservas, reserva.fecha, reserva.hora, 0)
       THEN /\ last' = Response("create_reserva", 0, reserva,
                                HTTP_400_BAD_REQUEST, NoReserva, <<>>)
            /\ UNCHANGED reserva_vars
       ELSE /\ reservas' =
                 [i \in DOMAIN reservas \cup {AssignReservaId} |->
                     IF i = AssignReservaId
                     THEN NewReserva(AssignReservaId, reserva)
                     ELSE reservas[i]]
            /\ next_reserva_id' = AssignReservaId + 1
            /\ last' = Response("create_reserva", AssignReservaId, reserva,
                                HTTP_201_CREATED, NoReserva, <<>>)
    /\ UNCHANGED <<app, today, in_flight, session_vars, cita_vars>>

\* GET /reservas/{reserva_id}  (obtener_reserva -> crud.get_reserva)
obtener_reserva(reserva_id) ==
    /\ LET db_reserva == get_reserva(reservas, reserva_id)
       IN  IF db_reserva = {}
           THEN last' = Response("get_reserva", reserva_id, NoRequest,
                                 HTTP_404_NOT_FOUND, NoReserva, <<>>)
           ELSE last' = Response("get_reserva", reserva_id, NoRequest,
                                 HTTP_200_OK, reservas[reserva_id], <<>>)
    /\ UNCHANGED <<app, today, in_flight, session_vars, reserva_vars, cita_vars>>

\* The duplicate check run only when fecha is supplied.
\* The duplicate check run by every update.
UpdateChecksDuplicate_always(update_data) == TRUE

UpdateChecksDuplicate_only_fecha(update_data) ==
    "fecha" \in DOMAIN update_data

\* Whether update_reserva runs the duplicate check:
\* if ('fecha' in update_data or 'hora' in update_data)
UpdateChecksDuplicate(update_data) ==
    "fecha" \in DOMAIN update_data \/ "hora" \in DOMAIN update_data

\* PUT /reservas/{reserva_id}  (actualizar_reserva -> crud.update_reserva)
update_reserva(reserva_id, reserva_update) ==
    /\ IF ~ReservaUpdateValid(reserva_update)
       THEN /\ last' = Response("update_reserva", 0, reserva_update,
                                HTTP_422_UNPROCESSABLE_ENTITY, NoReserva, <<>>)
            /\ UNCHANGED reserva_vars
       ELSE IF get_reserva(reservas, reserva_id) = {}
       THEN /\ last' = Response("update_reserva", reserva_id, reserva_update,
                                HTTP_404_NOT_FOUND, NoReserva, <<>>)
            /\ UNCHANGED reserva_vars
       ELSE LET db_reserva == reservas[reserva_id]
                update_data == reserva_update
                nueva_fecha == IF "fecha" \in DOMAIN update_data
                               THEN update_data.fecha ELSE db_reserva.fecha
                nueva_hora == IF "hora" \in DOMAIN update_data
                              THEN update_data.hora ELSE db_reserva.hora
            IN  IF /\ UpdateChecksDuplicate(update_data)
                   /\ check_reserva_duplicada(reservas, nueva_fecha, nueva_hora,
                                              reserva_id)
                THEN /\ last' = Response("update_reserva", reserva_id,
                                         reserva_update, HTTP_400_BAD_REQUEST,
                                         db_reserva, <<>>)
                     /\ UNCHANGED reserva_vars
                ELSE /\ reservas' =
                          [reservas EXCEPT ![reserva_id] =
                              ApplyUpdate(db_reserva, update_data)]
                     /\ last' = Response("update_reserva", reserva_id,
                                         reserva_update, HTTP_200_OK,
                                         db_reserva, <<>>)
                     /\ UNCHANGED next_reserva_id
    /\ UNCHANGED <<app, today, in_flight, session_vars, cita_vars>>

\* A delete that is never committed.
DeleteRow_uncommitted(db, reserva_id) == db

\* The table after crud.delete_reserva: db.delete(db_reserva); db.commit()

DeleteRow(db, reserva_id) ==
    [i \in DOMAIN db \ {reserva_id} |-> db[i]]

\* DELETE /reservas/{reserva_id}  (eliminar_reserva -> crud.delete_reserva)
delete_reserva(reserva_id) ==
    /\ IF get_reserva(reservas, reserva_id) = {}
       THEN /\ last' = Response("delete_reserva", reserva_id, NoRequest,
                                HTTP_404_NOT_FOUND, NoReserva, <<>>)
            /\ UNCHANGED reserva_vars
       ELSE /\ reservas' = DeleteRow(reservas, reserva_id)
            /\ last' = Response("delete_reserva", reserva_id, NoRequest,
                                HTTP_200_OK, reservas[reserva_id], <<>>)
            /\ UNCHANGED next_reserva_id
    /\ UNCHANGED <<app, today, in_flight, session_vars, cita_vars>>

\* A cancel that also wipes the client's data from the row.
CancelRow_anonymised(row) ==
    [row EXCEPT !.estado = CANCELADA, !.nombre_cliente = "", !.email = ""]

\* The row after crud.cancel_reserva: db_reserva.estado = CANCELADA
CancelRow(row) == [row EXCEPT !.estado = CANCELADA]

\* PATCH /reservas/{reserva_id}/cancelar  (cancelar_reserva -> crud.cancel_reserva)
cancel_reserva(reserva_id) ==
    /\ IF get_reserva(reservas, reserva_id) = {}
       THEN /\ last' = Response("cancel_reserva", reserva_id, NoRequest,
                                HTTP_404_NOT_FOUND, NoReserva, <<>>)
            /\ UNCHANGED reserva_vars
       ELSE /\ reservas' =
                 [reservas EXCEPT ![reserva_id] = CancelRow(reservas[reserva_id])]
            /\ last' = Response("cancel_reserva", reserva_id, NoRequest,
                                HTTP_200_OK, reservas[reserva_id], <<>>)
            /\ UNCHANGED next_reserva_id
    /\ UNCHANGED <<app, today, in_flight, session_vars, cita_vars>>

(***************************************************************************)
(* Reserva application: listing and availability.                          *)
(***************************************************************************)
Min(a, b) == IF a < b THEN a ELSE b
Max(a, b) == IF a > b THEN a ELSE b

\* ORDER BY fecha ASC, hora ASC.
OrderedBefore_ascending(a, b) ==
    \/ a.fecha < b.fecha
    \/ a.fecha = b.fecha /\ HoraLess(a.hora, b.hora)

\* ORDER BY fecha DESC, hora DESC.
OrderedBefore(a, b) ==
    \/ a.fecha > b.fecha
    \/ a.fecha = b.fecha /\ HoraLess(b.hora, a.hora)

\* The ids of a table in the order a scan returns them (ascending id).
TableScan(db) ==
    LET ids == DOMAIN db
        top == IF ids = {} THEN 0 ELSE CHOOSE m \in ids : \A i \in ids : i <= m
        Stored(i) == i \in ids
    IN  SelectSeq([k \in 1..top |-> k], Stored)

\* crud.get_reservas(db, skip, limit, fecha, estado).  An optional filter is
\* the empty set when it is not supplied and {value} when it is.  Rows equal
\* on both sort keys stay in scan order.
get_reservas(db, skip, limit, fecha, estado) ==
    LET Matches(i) == /\ fecha # {} => db[i].fecha \in fecha
                      /\ estado # {} => db[i].estado \in estado
        ByFechaHoraDesc(i, j) == OrderedBefore(db[i], db[j])
        ordered == SortSeq(SelectSeq(TableScan(db), Matches), ByFechaHoraDesc)
        count == Max(0, Min(limit, Len(ordered) - skip))
    IN  [k \in 1..count |-> db[ordered[skip + k]]]

\* crud.get_reservas_count(db, fecha, estado)
get_reservas_count(db, fecha, estado) ==
    Cardinality({ i \in DOMAIN db :
                    /\ fecha # {} => db[i].fecha \in fecha
                    /\ estado # {} => db[i].estado \in estado })

\* Query(100, ge=1, le=500)
LIST_LIMIT_MAX == 500

\* The query parameters of the listing requests: an optional filter is the
\* empty set when it is not supplied.
Skips == {-1, 0, 1}
Limits == {0, 1, 2}
ListQuery ==
    [skip : Skips, limit : Limits,
     fecha : {{}} \cup { {f} : f \in Fechas },
     estado : {{}} \cup { {e} : e \in EstadoReserva }]

\* GET /reservas/  (listar_reservas)
listar_reservas(q) ==
    /\ IF q.skip < 0 \/ q.limit < 1 \/ q.limit > LIST_LIMIT_MAX
       THEN last' = Response("listar_reservas", 0, q,
                             HTTP_422_UNPROCESSABLE_ENTITY, NoReserva, <<>>)
       ELSE LET lista == get_reservas(reservas, q.skip, q.limit, q.fecha, q.estado)
                total == get_reservas_count(reservas, q.fecha, q.estado)
            IN  last' = Response("listar_reservas", 0, q, HTTP_200_OK, NoReserva,
                                 [total |-> total, reservas |-> lista])
    /\ UNCHANGED <<app, today, in_flight, session_vars, reserva_vars, cita_vars>>

\* horarios_posibles = [f"{h:02d}:{m:02d}" for h in range(9, 20) for m in [0, 30]]
horarios_posibles ==
    [k \in 1..22 |-> FormatHora(9 + (k - 1) \div 2, 30 * ((k - 1) % 2))]

\* limit=500 in consultar_disponibilidad's call of crud.get_reservas
DISPONIBILIDAD_LIMIT == 500

horas_disponibles(db, fecha) ==
    LET reservas_fecha == get_reservas(db, 0, DISPONIBILIDAD_LIMIT, {fecha},
                                       {CONFIRMADA})
        horas_ocupadas == { reservas_fecha[k].hora : k \in DOMAIN reservas_fecha }
        Libre(h) == h \notin horas_ocupadas
    IN  SelectSeq(horarios_posibles, Libre)

\* GET /reservas/disponibilidad/{fecha}
consultar_disponibilidad(fecha) ==
    /\ last' = Response("consultar_disponibilidad", 0, [fecha |-> fecha],
                        HTTP_200_OK, NoReserva, horas_disponibles(reservas, fecha))
    /\ UNCHANGED <<app, today, in_flight, session_vars, reserva_vars, cita_vars>>

(***************************************************************************)
(* Barber/Service/Appointment application: values.                         *)
(***************************************************************************)
PENDING == "pending"
CONFIRMED == "confirmed"
COMPLETED == "completed"
CANCELLED == "cancelled"
AppointmentStatus == {PENDING, CONFIRMED, COMPLETED, CANCELLED}

MaxAppointments == 2   \* appointments created in one run
MaxBarbers == 2        \* barbers created in one run
MaxServices == 2       \* services created in one run

BarberNames == {"Ana", "Luis"}
ServiceNames == {"Corte"}
BarberIds == {1, 2}
ServiceIds == {1, 2}     \* one service name: id 2 is never stored
AppointmentIds == 1..MaxAppointments
AppointmentDates == {1, 2}
Clients == {"Juan"}
RequestedStatus == AppointmentStatus   \* statuses the update requests ask for
NoNotes == ""                          \* notes is NULL
Notes == {"sin barba"}                 \* notes the update requests write
Phones == {"600"}
Prices == {10}

BarberCreate == [name : BarberNames, phone : Phones]
ServiceCreate == [name : ServiceNames, price : Prices]
AppointmentCreate ==
    [client_name : Clients, barber_id : BarberIds, service_id : ServiceIds,
     appointment_date : AppointmentDates, notes : {NoNotes}]

\* AppointmentUpdate.dict(exclude_unset=True): only the supplied fields.
\* The requests of the model move an appointment (barber_id and/or
\* appointment_date) or write its status; the requests that annotate it
\* write its notes, alone or with a new appointment_date.
AppointmentUpdateFields ==
    (SUBSET {"barber_id", "appointment_date"}) \cup {{"status"}}
AppointmentNotesFields ==
    (SUBSET {"barber_id", "appointment_date"})
        \cup {{"notes"}, {"notes", "appointment_date"}}
AppointmentUpdateValue(field, b, d, st, nt) ==
    CASE field = "barber_id" -> b
      [] field = "appointment_date" -> d
      [] field = "status" -> st
      [] field = "notes" -> nt
AppointmentUpdateOver(fs) ==
    { [field \in fs |-> AppointmentUpdateValue(field, b, d, st, nt)] :
        b \in FieldValues("barber_id", fs, BarberIds),
        d \in FieldValues("appointment_date", fs, AppointmentDates),
        st \in FieldValues("status", fs, RequestedStatus),
        nt \in FieldValues("notes", fs, Notes) }
AppointmentUpdate ==
    UNION { AppointmentUpdateOver(fs) : fs \in AppointmentUpdateFields }
AppointmentNotesUpdate ==
    UNION { AppointmentUpdateOver(fs) : fs \in AppointmentNotesFields }

\* BarberUpdate.dict(exclude_unset=True), ServiceUpdate.dict(exclude_unset=True)
UpdatePhones == {"700"}
UpdatePrices == {12}
BarberUpdateValue(field, n, ph) ==
    CASE field = "name" -> n
      [] field = "phone" -> ph
BarberUpdateOver(fs) ==
    { [field \in fs |-> BarberUpdateValue(field, n, ph)] :
        n \in FieldValues("name", fs, BarberNames),
        ph \in FieldValues("phone", fs, UpdatePhones) }
BarberUpdate == UNION { BarberUpdateOver(fs) : fs \in SUBSET {"name", "phone"} }
ServiceUpdateValue(field, n, pr) ==
    CASE field = "name" -> n
      [] field = "price" -> pr
ServiceUpdateOver(fs) ==
    { [field \in fs |-> ServiceUpdateValue(field, n, pr)] :
        n \in FieldValues("name", fs, ServiceNames),
        pr \in FieldValues("price", fs, UpdatePrices) }
ServiceUpdate == UNION { ServiceUpdateOver(fs) : fs \in SUBSET {"name", "price"} }

NoAppointment ==
    [id |-> 0, client_name |-> "", barber_id |-> 0, service_id |-> 0,
     appointment_date |-> 0, status |-> "", notes |-> NoNotes]

(***************************************************************************)
(* Barber/Service/Appointment application: the schema's constraints, which *)
(* the store checks when a transaction commits.                            *)
(***************************************************************************)
\* A schema without the unique constraint.
unique_barber_appointment_date_off(rows) == TRUE

\* UniqueConstraint('barber_id', 'appointment_date')

unique_barber_appointment_date(rows) ==
    \A i, j \in DOMAIN rows :
        i # j => ~( /\ rows[i].barber_id = rows[j].barber_id
                    /\ rows[i].appointment_date = rows[j].appointment_date )

\* ForeignKey("barbers.id"), ForeignKey("services.id")
foreign_keys(rows) ==
    \A i \in DOMAIN rows :
        /\ rows[i].barber_id \in DOMAIN barbers
        /\ rows[i].service_id \in DOMAIN services

\* A name column that is not declared unique.
unique_name_off(rows) == TRUE

\* Column(String(255), unique=True) of Barber.name and of Service.name
unique_name(rows) ==
    \A i, j \in DOMAIN rows : i # j => rows[i].name # rows[j].name

\* db.commit() of a changed appointments table succeeds.
CommitAppointments(rows) ==
    unique_barber_appointment_date(rows) /\ foreign_keys(rows)

(***************************************************************************)
(* Barber/Service/Appointment application: routes.                         *)
(***************************************************************************)
\* POST /barbers/
create_barber(barber) ==
    /\ IF \E i \in DOMAIN barbers : barbers[i].name = barber.name
       THEN /\ last' = Response("create_barber", 0, barber,
                                HTTP_400_BAD_REQUEST, NoAppointment, <<>>)
            /\ UNCHANGED <<barbers, next_barber_id>>
       ELSE /\ barbers' =
                 [i \in DOMAIN barbers \cup {next_barber_id} |->
                     IF i = next_barber_id
                     THEN [id |-> next_barber_id, name |-> barber.name,
                           phone |-> barber.phone]
                     ELSE barbers[i]]
            /\ next_barber_id' = next_barber_id + 1
            /\ last' = Response("create_barber", next_barber_id, barber,
                                HTTP_201_CREATED, NoAppointment, <<>>)
    /\ UNCHANGED <<app, today, in_flight, session_vars, reserva_vars, services, next_service_id,
                   appointments, next_appointment_id>>

\* POST /services/
create_service(service) ==
    /\ IF \E i \in DOMAIN services : services[i].name = service.name
       THEN /\ last' = Response("create_service", 0, service,
                                HTTP_400_BAD_REQUEST, NoAppointment, <<>>)
            /\ UNCHANGED <<services, next_service_id>>
       ELSE /\ services' =
                 [i \in DOMAIN services \cup {next_service_id} |->
                     IF i = next_service_id
                     THEN [id |-> next_service_id, name |-> service.name,
                           price |-> service.price]
                     ELSE services[i]]
            /\ next_service_id' = next_service_id + 1
            /\ last' = Response("create_service", next_service_id, service,
                                HTTP_201_CREATED, NoAppointment, <<>>)
    /\ UNCHANGED <<app, today, in_flight, session_vars, reserva_vars, barbers, next_barber_id,
                   appointments, next_appointment_id>>

\* An update that also puts the columns that have a default (status, notes)
\* back to it when the request does not supply them.
SetFields_with_defaults(row, update_data) ==
    [field \in DOMAIN row |->
        IF field \in DOMAIN update_data THEN update_data[field]
        ELSE IF field = "status" THEN PENDING
        ELSE IF field = "notes" THEN NoNotes
        ELSE row[field]]

\* An update that does not write the status of a cancelled row.
SetFields_cancelled_is_final(row, update_data) ==
    [field \in DOMAIN row |->
        IF /\ field \in DOMAIN update_data
           /\ ~(field = "status" /\ row[field] = CANCELLED)
        THEN update_data[field] ELSE row[field]]

\* for field, value in update_data.items(): setattr(db_row, field, value)
\* (the same loop in update_barber, update_service and update_appointment)
SetFields(row, update_data) ==
    [field \in DOMAIN row |->
        IF field \in DOMAIN update_data THEN update_data[field] ELSE row[field]]

\* PUT /barbers/{barber_id}
update_barber(barber_id, barber) ==
    /\ IF barber_id \notin DOMAIN barbers
       THEN /\ last' = Response("update_barber", barber_id, barber,
                                HTTP_404_NOT_FOUND, NoAppointment, <<>>)
            /\ UNCHANGED <<barbers, next_barber_id>>
       ELSE LET db_barber == barbers[barber_id]
                rows == [barbers EXCEPT ![barber_id] = SetFields(db_barber, barber)]
            IN  IF unique_name(rows)
                THEN /\ barbers' = rows
                     /\ last' = Response("update_barber", barber_id, barber,
                                         HTTP_200_OK, db_barber, <<>>)
                     /\ UNCHANGED next_barber_id
                ELSE \* IntegrityError: nothing is committed, no handler
                     /\ last' = Response("update_barber", barber_id, barber,
                                         HTTP_500_INTERNAL_SERVER_ERROR,
                                         db_barber, <<>>)
                     /\ UNCHANGED <<barbers, next_barber_id>>
    /\ UNCHANGED <<app, today, in_flight, session_vars, reserva_vars,
                   services, next_service_id, appointments, next_appointment_id>>

\* PUT /services/{service_id}
update_service(service_id, service) ==
    /\ IF service_id \notin DOMAIN services
       THEN /\ last' = Response("update_service", service_id, service,
                                HTTP_404_NOT_FOUND, NoAppointment, <<>>)
            /\ UNCHANGED <<services, next_service_id>>
       ELSE LET db_service == services[service_id]
                rows == [services EXCEPT ![service_id] = SetFields(db_service, service)]
            IN  IF unique_name(rows)
                THEN /\ services' = rows
                     /\ last' = Response("update_service", service_id, service,
                                         HTTP_200_OK, db_service, <<>>)
                     /\ UNCHANGED next_service_id
                ELSE \* IntegrityError: nothing is committed, no handler
                     /\ last' = Response("update_service", service_id, service,
                                         HTTP_500_INTERNAL_SERVER_ERROR,
                                         db_service, <<>>)
                     /\ UNCHANGED <<services, next_service_id>>
    /\ UNCHANGED <<app, today, in_flight, session_vars, reserva_vars,
                   barbers, next_barber_id, appointments, next_appointment_id>>

\* A relationship without the delete cascade.
cascade_delete_off(rows, field, id) == rows

\* relationship("Appointment", ..., cascade="all, delete-orphan"): the
\* appointments left when the barber (field = "barber_id") or the service
\* (field = "service_id") with this id is deleted.
cascade_delete(rows, field, id) ==
    [i \in { j \in DOMAIN rows : rows[j][field] # id } |-> rows[i]]

\* DELETE /barbers/{barber_id}
delete_barber(barber_id) ==
    /\ IF barber_id \notin DOMAIN barbers
       THEN /\ last' = Response("delete_barber", barber_id, NoRequest,
                                HTTP_404_NOT_FOUND, NoAppointment, <<>>)
            /\ UNCHANGED <<barbers, appointments>>
       ELSE /\ barbers' = [i \in DOMAIN barbers \ {barber_id} |-> barbers[i]]
            /\ appointments' = cascade_delete(appointments, "barber_id", barber_id)
            /\ last' = Response("delete_barber", barber_id, NoRequest,
                                HTTP_204_NO_CONTENT, barbers[barber_id], <<>>)
    /\ UNCHANGED <<app, today, in_flight, session_vars, reserva_vars,
                   next_barber_id, services, next_service_id,
                   next_appointment_id>>

\* DELETE /services/{service_id}
delete_service(service_id) ==
    /\ IF service_id \notin DOMAIN services
       THEN /\ last' = Response("delete_service", service_id, NoRequest,
                                HTTP_404_NOT_FOUND, NoAppointment, <<>>)
            /\ UNCHANGED <<services, appointments>>
       ELSE /\ services' = [i \in DOMAIN services \ {service_id} |-> services[i]]
            /\ appointments' = cascade_delete(appointments, "service_id", service_id)
            /\ last' = Response("delete_service", service_id, NoRequest,
                                HTTP_204_NO_CONTENT, services[service_id], <<>>)
    /\ UNCHANGED <<app, today, in_flight, session_vars, reserva_vars,
                   barbers, next_barber_id, next_service_id,
                   next_appointment_id>>

\* The existing_appointment query looking at confirmed appointments only.
existing_appointment_confirmed_only(rows, barber_id, appointment_date) ==
    { i \in DOMAIN rows :
        /\ rows[i].barber_id = barber_id
        /\ rows[i].appointment_date = appointment_date
        /\ rows[i].status = CONFIRMED }

\* The existing_appointment query of create_appointment.
existing_appointment(rows, barber_id, appointment_date) ==
    { i \in DOMAIN rows :
        /\ rows[i].barber_id = barber_id
        /\ rows[i].appointment_date = appointment_date
        /\ rows[i].status # CANCELLED }

\* Appointment(**appointment.dict()); status takes the column default.
NewAppointment(id, appointment) ==
    [id |-> id,
     client_name |-> appointment.client_name,
     barber_id |-> appointment.barber_id,
     service_id |-> appointment.service_id,
     appointment_date |-> appointment.appointment_date,
     status |-> PENDING,
     notes |-> appointment.notes]

\* GET /appointments/{appointment_id}
get_appointment(appointment_id) ==
    /\ IF appointment_id \notin DOMAIN appointments
       THEN last' = Response("get_appointment", appointment_id, NoRequest,
                             HTTP_404_NOT_FOUND, NoAppointment, <<>>)
       ELSE last' = Response("get_appointment", appointment_id, NoRequest,
                             HTTP_200_OK, appointments[appointment_id], <<>>)
    /\ UNCHANGED <<app, today, in_flight, session_vars, reserva_vars, cita_vars>>

\* barber = db.query(Barber).filter(Barber.id == appointment.barber_id).first()
barber_found(barber_id) == barber_id \in DOMAIN barbers

\* A create_appointment that does not look the service up.
service_found_unchecked(service_id) == TRUE

\* service = db.query(Service).filter(Service.id == appointment.service_id).first()
service_found(service_id) == service_id \in DOMAIN services

\* POST /appointments/
create_appointment(appointment) ==
    /\ IF ~barber_found(appointment.barber_id)
       THEN /\ last' = Response("create_appointment", 0, appointment,
                                HTTP_404_NOT_FOUND, NoAppointment, <<>>)
            /\ UNCHANGED <<appointments, next_appointment_id>>
       ELSE IF ~service_found(appointment.service_id)
       THEN /\ last' = Response("create_appointment", 0, appointment,
                                HTTP_404_NOT_FOUND, NoAppointment, <<>>)
            /\ UNCHANGED <<appointments, next_appointment_id>>
       ELSE IF existing_appointment(appointments, appointment.barber_id,
                                    appointment.appointment_date) # {}
       THEN /\ last' = Response("create_appointment", 0, appointment,
                                HTTP_400_BAD_REQUEST, NoAppointment, <<>>)
            /\ UNCHANGED <<appointments, next_appointment_id>>
       ELSE LET rows == [i \in DOMAIN appointments \cup {next_appointment_id} |->
                           IF i = next_appointment_id
                           THEN NewAppointment(next_appointment_id, appointment)
                           ELSE appointments[i]]
            IN  IF CommitAppointments(rows)
                THEN /\ appointments' = rows
                     /\ next_appointment_id' = next_appointment_id + 1
                     /\ last' = Response("create_appointment",
                                         next_appointment_id, appointment,
                                         HTTP_201_CREATED, NoAppointment, <<>>)
                ELSE \* IntegrityError: nothing is committed, no handler
                     /\ last' = Response("create_appointment", 0, appointment,
                                         HTTP_500_INTERNAL_SERVER_ERROR,
                                         NoAppointment, <<>>)
                     /\ UNCHANGED <<appointments, next_appointment_id>>
    /\ UNCHANGED <<app, today, in_flight, session_vars, reserva_vars, barbers, next_barber_id,
                   services, next_service_id>>

\* PUT /appointments/{appointment_id}
update_appointment(appointment_id, appointment) ==
    /\ IF appointment_id \notin DOMAIN appointments
       THEN /\ last' = Response("update_appointment", appointment_id,
                                appointment, HTTP_404_NOT_FOUND,
                                NoAppointment, <<>>)
            /\ UNCHANGED <<appointments, next_appointment_id>>
       ELSE LET db_appointment == appointments[appointment_id]
                rows == [appointments EXCEPT ![appointment_id] =
                            SetFields(db_appointment, appointment)]
            IN  IF CommitAppointments(rows)
                THEN /\ appointments' = rows
                     /\ last' = Response("update_appointment", appointment_id,
                                         appointment, HTTP_200_OK,
                                         db_appointment, <<>>)
                     /\ UNCHANGED next_appointment_id
                ELSE \* IntegrityError: nothing is committed, no handler
                     /\ last' = Response("update_appointment", appointment_id,
                                         appointment,
                                         HTTP_500_INTERNAL_SERVER_ERROR,
                                         db_appointment, <<>>)
                     /\ UNCHANGED <<appointments, next_appointment_id>>
    /\ UNCHANGED <<app, today, in_flight, session_vars, reserva_vars, barbers, next_barber_id,
                   services, next_service_id>>

\* A DELETE that leaves the row as it is.
SoftDelete_noop(row) == row

\* What delete_appointment does to the row: db_appointment.status = "cancelled"
SoftDelete(row) == [row EXCEPT !.status = CANCELLED]

\* DELETE /appointments/{appointment_id}
delete_appointment(appointment_id) ==
    /\ IF appointment_id \notin DOMAIN appointments
       THEN /\ last' = Response("delete_appointment", appointment_id,
                                NoRequest, HTTP_404_NOT_FOUND,
                                NoAppointment, <<>>)
            /\ UNCHANGED <<appointments, next_appointment_id>>
       ELSE /\ appointments' =
                 [appointments EXCEPT ![appointment_id] =
                     SoftDelete(appointments[appointment_id])]
            /\ last' = Response("delete_appointment", appointment_id,
                                NoRequest, HTTP_204_NO_CONTENT,
                                appointments[appointment_id], <<>>)
            /\ UNCHANGED next_appointment_id
    /\ UNCHANGED <<app, today, in_flight, session_vars, reserva_vars, barbers, next_barber_id,
                   services, next_service_id>>

(***************************************************************************)
(* Initial state and specification.                                        *)
(***************************************************************************)
EmptyTable == [i \in {} |-> NoReserva]

\* The workers that serve requests side by side; none is in the middle of a
\* request when the application starts.
Workers == {1, 2}
Idle == [w \in Workers |-> [pc |-> "idle"]]

InitReservas ==
    /\ app = "reservas"
    /\ today = 1
    /\ reservas = EmptyTable
    /\ next_reserva_id = 1
    /\ barbers = EmptyTable
    /\ next_barber_id = 1
    /\ services = EmptyTable
    /\ next_service_id = 1
    /\ appointments = EmptyTable
    /\ next_appointment_id = 1
    /\ in_flight = Idle
    /\ active_sessions = EmptyTable
    /\ next_token = 1
    /\ now = 0
    /\ last = Response("init", 0, NoRequest, 0, NoReserva, <<>>)

\* The requests a client of the Reserva application sends.
CrearReserva ==
    /\ app = "reservas"
    /\ next_reserva_id <= MaxReservas
    /\ \E reserva \in ReservaCreate : create_reserva(reserva)

ObtenerReserva ==
    /\ app = "reservas"
    /\ \E id \in ReservaIds : obtener_reserva(id)

ActualizarReserva ==
    /\ app = "reservas"
    /\ \E id \in ReservaIds, upd \in ReservaUpdate : update_reserva(id, upd)

EliminarReserva ==
    /\ app = "reservas"
    /\ \E id \in ReservaIds : delete_reserva(id)

CancelarReserva ==
    /\ app = "reservas"
    /\ \E id \in ReservaIds : cancel_reserva(id)

ConsultarDisponibilidad ==
    /\ app = "reservas"
    /\ \E fecha \in Fechas : consultar_disponibilidad(fecha)

ListarReservas ==
    /\ app = "reservas"
    /\ \E q \in ListQuery : listar_reservas(q)

NextReservas ==
    \/ CrearReserva
    \/ ListarReservas
    \/ ObtenerReserva
    \/ ActualizarReserva
    \/ EliminarReserva
    \/ CancelarReserva
    \/ ConsultarDisponibilidad

InitCitas ==
    /\ app = "citas"
    /\ today = 1
    /\ reservas = EmptyTable
    /\ next_reserva_id = 1
    /\ barbers = EmptyTable
    /\ next_barber_id = 1
    /\ services = EmptyTable
    /\ next_service_id = 1
    /\ appointments = EmptyTable
    /\ next_appointment_id = 1
    /\ in_flight = Idle
    /\ active_sessions = EmptyTable
    /\ next_token = 1
    /\ now = 0
    /\ last = Response("init", 0, NoRequest, 0, NoAppointment, <<>>)

\* The requests a client of the Barber/Service/Appointment application sends.
PostBarber ==
    /\ app = "citas"
    /\ next_barber_id <= MaxBarbers
    /\ \E barber \in BarberCreate : create_barber(barber)

PostService ==
    /\ app = "citas"
    /\ next_service_id <= MaxServices
    /\ \E service \in ServiceCreate : create_service(service)

PostAppointment ==
    /\ app = "citas"
    /\ next_appointment_id <= MaxAppointments
    /\ \E appointment \in AppointmentCreate : create_appointment(appointment)

PutAppointment ==
    /\ app = "citas"
    /\ \E id \in AppointmentIds, upd \in AppointmentUpdate :
          update_appointment(id, upd)

DeleteAppointment ==
    /\ app = "citas"
    /\ \E id \in AppointmentIds : delete_appointment(id)

GetAppointment ==
    /\ app = "citas"
    /\ \E id \in AppointmentIds : get_appointment(id)

NextCitas ==
    \/ PostBarber
    \/ PostService
    \/ PostAppointment
    \/ PutAppointment
    \/ DeleteAppointment
    \/ GetAppointment

\* Either application may be the one deployed.
Init == InitReservas \/ InitCitas

Next == NextReservas \/ NextCitas

SpecReservas == InitReservas /\ [][NextReservas]_vars

SpecCitas == InitCitas /\ [][NextCitas]_vars

Spec == Init /\ [][Next]_vars

(***************************************************************************)
(* A busy day: one client after another books the next free minute of day  *)
(* 1, starting at 09:00, and availability is queried in between.           *)
(***************************************************************************)
MaxBusyDay == 501      \* reservas created on the busy day

MinuteSlot(k) == FormatHora(9 + k \div 60, k % 60)

BusyCreate ==
    /\ app = "reservas"
    /\ next_reserva_id <= MaxBusyDay
    /\ create_reserva([nombre_cliente |-> "Juan", email |-> "juan@email.com",
                       fecha |-> 1, hora |-> MinuteSlot(next_reserva_id - 1),
                       servicio |-> "Corte"])

BusyQuery == app = "reservas" /\ consultar_disponibilidad(1)

\* A client asks for the first slot of the day, 09:00 (only the first such
\* request of a day can add a row).
BusyFirstSlot ==
    /\ app = "reservas"
    /\ create_reserva([nombre_cliente |-> "Juan", email |-> "juan@email.com",
                       fecha |-> 1, hora |-> MinuteSlot(0),
                       servicio |-> "Corte"])

NextBusyDay == BusyCreate \/ BusyQuery \/ BusyFirstSlot

SpecBusyDay == InitReservas /\ [][NextBusyDay]_vars

(***************************************************************************)
(* The Reserva application over several days: date.today() moves on.       *)
(***************************************************************************)
MaxToday == 2          \* the last day of a run

NextDay ==
    /\ app = "reservas"
    /\ today < MaxToday
    /\ today' = today + 1
    /\ last' = Response("next_day", 0, NoRequest, 0, NoReserva, <<>>)
    /\ UNCHANGED <<app, in_flight, session_vars, reserva_vars, cita_vars>>

NextDays == NextReservas \/ NextDay

SpecDays == InitReservas /\ [][NextDays]_vars

(***************************************************************************)
(* Concurrent creates.  Two workers serve requests side by side, each in   *)
(* its own database session: the queries of a request (the check step) and *)
(* its add and commit (the insert step) are separate steps, and steps of   *)
(* the other worker may come in between.                                   *)
(***************************************************************************)
Checked(request) == [pc |-> "checked", req |-> request]

\* A reservas table with a uniqueness constraint over its confirmada slots.
CommitReservas_unique_slot(rows) ==
    \A i, j \in DOMAIN rows :
        ( /\ i # j
          /\ rows[i].estado = CONFIRMADA
          /\ rows[j].estado = CONFIRMADA )
        => ~(rows[i].fecha = rows[j].fecha /\ rows[i].hora = rows[j].hora)

\* db.commit() of a changed reservas table succeeds: the table declares no
\* constraint over (fecha, hora).
CommitReservas(rows) == TRUE

\* crud.create_reserva up to the duplicate check (and the request
\* validation before it).
create_reserva_check(w, reserva) ==
    /\ in_flight[w].pc = "idle"
    /\ IF ~ReservaCreateValid(reserva)
       THEN /\ last' = Response("create_reserva", 0, reserva,
                                HTTP_422_UNPROCESSABLE_ENTITY, NoReserva, <<>>)
            /\ UNCHANGED in_flight
       ELSE IF check_reserva_duplicada(reservas, reserva.fecha, reserva.hora, 0)
       THEN /\ last' = Response("create_reserva", 0, reserva,
                                HTTP_400_BAD_REQUEST, NoReserva, <<>>)
            /\ UNCHANGED in_flight
       ELSE /\ in_flight' = [in_flight EXCEPT ![w] = Checked(reserva)]
            /\ last' = Response("check_reserva_duplicada", 0, reserva, 0,
                                NoReserva, <<>>)
    /\ UNCHANGED <<app, today, session_vars, reserva_vars, cita_vars>>

\* crud.create_reserva from the construction of the row on: add, commit.
create_reserva_insert(w) ==
    /\ in_flight[w].pc = "checked"
    /\ LET reserva == in_flight[w].req
           rows == [i \in DOMAIN reservas \cup {AssignReservaId} |->
                      IF i = AssignReservaId
                      THEN NewReserva(AssignReservaId, reserva)
                      ELSE reservas[i]]
       IN  IF CommitReservas(rows)
           THEN /\ reservas' = rows
                /\ next_reserva_id' = AssignReservaId + 1
                /\ last' = Response("create_reserva", AssignReservaId, reserva,
                                    HTTP_201_CREATED, NoReserva, <<>>)
           ELSE /\ last' = Response("create_reserva", 0, reserva,
                                    HTTP_500_INTERNAL_SERVER_ERROR,
                                    NoReserva, <<>>)
                /\ UNCHANGED reserva_vars
    /\ in_flight' = [in_flight EXCEPT ![w] = [pc |-> "idle"]]
    /\ UNCHANGED <<app, today, session_vars, cita_vars>>

ReservaCheckStep ==
    /\ app = "reservas"
    /\ next_reserva_id <= MaxReservas
    /\ \E w \in Workers, reserva \in ReservaCreate :
          create_reserva_check(w, reserva)

ReservaInsertStep ==
    /\ app = "reservas"
    /\ \E w \in Workers : create_reserva_insert(w)

NextReservaRace == ReservaCheckStep \/ ReservaInsertStep

SpecReservaRace == InitReservas /\ [][NextReservaRace]_vars

\* create_appointment up to the existing_appointment query.
create_appointment_check(w, appointment) ==
    /\ in_flight[w].pc = "idle"
    /\ IF ~barber_found(appointment.barber_id)
       THEN /\ last' = Response("create_appointment", 0, appointment,
                                HTTP_404_NOT_FOUND, NoAppointment, <<>>)
            /\ UNCHANGED in_flight
       ELSE IF ~service_found(appointment.service_id)
       THEN /\ last' = Response("create_appointment", 0, appointment,
                                HTTP_404_NOT_FOUND, NoAppointment, <<>>)
            /\ UNCHANGED in_flight
       ELSE IF existing_appointment(appointments, appointment.barber_id,
                                    appointment.appointment_date) # {}
       THEN /\ last' = Response("create_appointment", 0, appointment,
                                HTTP_400_BAD_REQUEST, NoAppointment, <<>>)
            /\ UNCHANGED in_flight
       ELSE /\ in_flight' = [in_flight EXCEPT ![w] = Checked(appointment)]
            /\ last' = Response("existing_appointment", 0, appointment, 0,
                                NoAppointment, <<>>)
    /\ UNCHANGED <<app, today, session_vars, reserva_vars, cita_vars>>

\* create_appointment from the construction of the row on: add, commit.
create_appointment_insert(w) ==
    /\ in_flight[w].pc = "checked"
    /\ LET appointment == in_flight[w].req
           rows == [i \in DOMAIN appointments \cup {next_appointment_id} |->
                      IF i = next_appointment_id
                      THEN NewAppointment(next_appointment_id, appointment)
                      ELSE appointments[i]]
       IN  IF CommitAppointments(rows)
           THEN /\ appointments' = rows
                /\ next_appointment_id' = next_appointment_id + 1
                /\ last' = Response("create_appointment", next_appointment_id,
                                    appointment, HTTP_201_CREATED,
                                    NoAppointment, <<>>)
           ELSE \* IntegrityError: nothing is committed, no handler
                /\ last' = Response("create_appointment", 0, appointment,
                                    HTTP_500_INTERNAL_SERVER_ERROR,
                                    NoAppointment, <<>>)
                /\ UNCHANGED <<appointments, next_appointment_id>>
    /\ in_flight' = [in_flight EXCEPT ![w] = [pc |-> "idle"]]
    /\ UNCHANGED <<app, today, session_vars, reserva_vars, barbers,
                   next_barber_id, services, next_service_id>>

AppointmentCheckStep ==
    /\ app = "citas"
    /\ next_appointment_id <= MaxAppointments
    /\ \E w \in Workers, appointment \in AppointmentCreate :
          create_appointment_check(w, appointment)

AppointmentInsertStep ==
    /\ app = "citas"
    /\ \E w \in Workers : create_appointment_insert(w)

NextCitaRace ==
    \/ PostBarber
    \/ PostService
    \/ AppointmentCheckStep
    \/ AppointmentInsertStep

SpecCitaRace == InitCitas /\ [][NextCitaRace]_vars

(***************************************************************************)
(* Authentication (src/app/routes/auth.py), served by the                  *)
(* Barber/Service/Appointment application.  Time is counted in hours.      *)
(***************************************************************************)
MaxNow == 10           \* hours the clock runs
MaxTokens == 2         \* logins that succeed in one run

\* settings.admin_password
ADMIN_PASSWORD == "admin-secret"
Passwords == {ADMIN_PASSWORD, "wrong"}
Tokens == 1..MaxTokens

\* timedelta(hours=8)
SESSION_HOURS == 8

NoSession == [created_at |-> 0, expires_at |-> 0]

\* A session that is already expired at the hour its expiry names.
session_expired_at_expiry(session) == now >= session.expires_at

\* datetime.utcnow() > session["expires_at"]
session_expired(session) == now > session.expires_at

\* A removal that clears the whole table.
del_session_all(sessions, token) == [t \in {} |-> NoSession]

\* An expired session that verify_session leaves in the table.
del_session_keep(sessions, token) == sessions

\* del active_sessions[token]
del_session(sessions, token) ==
    [t \in DOMAIN sessions \ {token} |-> sessions[t]]

\* POST /auth/login
login(request) ==
    /\ IF request.password # ADMIN_PASSWORD
       THEN /\ last' = Response("login", 0, request, HTTP_401_UNAUTHORIZED,
                                NoSession, "Contraseña incorrecta")
            /\ UNCHANGED <<active_sessions, next_token>>
       ELSE LET token == next_token
            IN  /\ active_sessions' =
                     [t \in DOMAIN active_sessions \cup {token} |->
                         IF t = token
                         THEN [created_at |-> now,
                               expires_at |-> now + SESSION_HOURS]
                         ELSE active_sessions[t]]
                /\ next_token' = next_token + 1
                /\ last' = Response("login", token, request, HTTP_200_OK,
                                    NoSession, "Autenticación exitosa")
    /\ UNCHANGED <<app, today, in_flight, now, reserva_vars, cita_vars>>

\* GET /auth/verify
verify_session(token) ==
    /\ IF token \notin DOMAIN active_sessions
       THEN /\ last' = Response("verify_session", token, NoRequest,
                                HTTP_401_UNAUTHORIZED, NoSession,
                                "Token inválido")
            /\ UNCHANGED active_sessions
       ELSE LET session == active_sessions[token]
            IN  IF session_expired(session)
                THEN /\ active_sessions' = del_session(active_sessions, token)
                     /\ last' = Response("verify_session", token, NoRequest,
                                         HTTP_401_UNAUTHORIZED, session,
                                         "Token expirado")
                ELSE /\ last' = Response("verify_session", token, NoRequest,
                                         HTTP_200_OK, session, "Token válido")
                     /\ UNCHANGED active_sessions
    /\ UNCHANGED <<app, today, in_flight, next_token, now, reserva_vars,
                   cita_vars>>

\* POST /auth/logout
logout(token) ==
    /\ IF token \in DOMAIN active_sessions
       THEN active_sessions' = del_session(active_sessions, token)
       ELSE UNCHANGED active_sessions
    /\ last' = Response("logout", token, NoRequest, HTTP_200_OK,
                        IF token \in DOMAIN active_sessions
                        THEN active_sessions[token] ELSE NoSession,
                        "Sesión cerrada")
    /\ UNCHANGED <<app, today, in_flight, next_token, now, reserva_vars,
                   cita_vars>>

Login ==
    /\ app = "citas"
    /\ next_token <= MaxTokens
    /\ \E request \in [password : Passwords] : login(request)

VerifySession ==
    /\ app = "citas"
    /\ \E token \in Tokens : verify_session(token)

Logout ==
    /\ app = "citas"
    /\ \E token \in Tokens : logout(token)

\* An hour passes.
Tick ==
    /\ app = "citas"
    /\ now < MaxNow
    /\ now' = now + 1
    /\ last' = Response("tick", 0, NoRequest, 0, NoSession, "")
    /\ UNCHANGED <<app, today, in_flight, active_sessions, next_token,
                   reserva_vars, cita_vars>>

NextAuth == Login \/ VerifySession \/ Logout \/ Tick

SpecAuth == InitCitas /\ [][NextAuth]_vars

(***************************************************************************)
(* The Barber/Service/Appointment application with every request on its    *)
(* catalogue: barbers and services are also updated and deleted.           *)
(***************************************************************************)
DeleteBarber ==
    /\ app = "citas"
    /\ \E id \in BarberIds : delete_barber(id)

DeleteService ==
    /\ app = "citas"
    /\ \E id \in ServiceIds : delete_service(id)

(***************************************************************************)
(* Either application, with the updates of its catalogue (barbers and      *)
(* services) among the requests.                                           *)
(***************************************************************************)
PutBarber ==
    /\ app = "citas"
    /\ \E id \in BarberIds, upd \in BarberUpdate : update_barber(id, upd)

PutService ==
    /\ app = "citas"
    /\ \E id \in ServiceIds, upd \in ServiceUpdate : update_service(id, upd)

AnnotateAppointment ==
    /\ app = "citas"
    /\ \E id \in AppointmentIds, upd \in AppointmentNotesUpdate :
          update_appointment(id, upd)

NextUpdates ==
    \/ CrearReserva
    \/ ActualizarReserva
    \/ PostBarber
    \/ PostService
    \/ PostAppointment
    \/ AnnotateAppointment
    \/ DeleteAppointment
    \/ PutBarber
    \/ PutService

SpecUpdates == Init /\ [][NextUpdates]_vars

\* The requests on barbers and services alone.
NextCatalogo ==
    \/ PostBarber
    \/ PutBarber
    \/ DeleteBarber
    \/ PostService
    \/ PutService
    \/ DeleteService

SpecCatalogo == InitCitas /\ [][NextCatalogo]_vars

\* The requests on appointments, with barbers and services created and
\* deleted in between.
NextCascade ==
    \/ NextCitas
    \/ DeleteBarber
    \/ DeleteService

SpecCascade == InitCitas /\ [][NextCascade]_vars

(***************************************************************************)
(* Properties.                                                             *)
(***************************************************************************)
\* The confirmada rows of a reservas table at (fecha, hora).
ConfirmadasAt(db, fecha, hora) ==
    { i \in DOMAIN db :
        db[i].fecha = fecha /\ db[i].hora = hora /\ db[i].estado = "confirmada" }

\* The appointments of a barber at a date whose status is not cancelled.
ActiveAt(rows, barber_id, appointment_date) ==
    { i \in DOMAIN rows :
        /\ rows[i].barber_id = barber_id
        /\ rows[i].appointment_date = appointment_date
        /\ rows[i].status # "cancelled" }

\* C1: no two distinct confirmada reservas share (fecha, hora), in every
\* state reached by create, update, cancel and delete requests run one at a
\* time.
C1_NoDoubleBooking ==
    \A i, j \in DOMAIN reservas :
        ( /\ i # j
          /\ reservas[i].estado = "confirmada"
          /\ reservas[j].estado = "confirmada" )
        => ~( /\ reservas[i].fecha = reservas[j].fecha
              /\ reservas[i].hora = reservas[j].hora )

\* C2: no barber has two distinct appointments that are not cancelled at the
\* same appointment_date, in every state reached by create, update and
\* delete requests on appointments.
C2_NoBarberDoubleBooking ==
    \A i, j \in DOMAIN appointments :
        ( /\ i # j
          /\ appointments[i].status # "cancelled"
          /\ appointments[j].status # "cancelled" )
        => ~( /\ appointments[i].barber_id = appointments[j].barber_id
              /\ appointments[i].appointment_date = appointments[j].appointment_date )

\* C2 witness: an update that would have put two live appointments of one
\* barber on the same date was refused by the store.
C2_Witness ==
    /\ last.op = "update_appointment"
    /\ last.status = 500
    /\ \E i, j \in DOMAIN appointments :
          /\ i # j
          /\ appointments[i].barber_id = appointments[j].barber_id
          /\ appointments[i].status # "cancelled"
          /\ appointments[j].status # "cancelled"

\* A create_reserva request that passed validation finds its slot held.
ReservaCreateOnHeldSlot ==
    /\ last'.op = "create_reserva"
    /\ last'.status # 422
    /\ ConfirmadasAt(reservas, last'.req.fecha, last'.req.hora) # {}

\* A create_appointment request finds its slot held by a live appointment.
AppointmentCreateOnHeldSlot ==
    /\ last'.op = "create_appointment"
    /\ ActiveAt(appointments, last'.req.barber_id,
                last'.req.appointment_date) # {}

\* C3 as claimed: a create for a slot held by an active booking answers 400
\* and stores nothing, for reservas and for appointments alike.
C3_HeldSlotCreateIs400 ==
    [][ /\ ReservaCreateOnHeldSlot =>
             (last'.status = 400 /\ UNCHANGED reserva_vars)
        /\ AppointmentCreateOnHeldSlot =>
             (last'.status = 400 /\ UNCHANGED cita_vars) ]_vars

\* C3 amended: a create for a slot held by an active booking stores nothing;
\* create_reserva answers 400; create_appointment answers 400 when the
\* requested service exists and 404 when it does not.
C3_HeldSlotCreateRejected ==
    [][ /\ ReservaCreateOnHeldSlot =>
             (last'.status = 400 /\ UNCHANGED reserva_vars)
        /\ AppointmentCreateOnHeldSlot =>
             /\ UNCHANGED cita_vars
             /\ last'.req.service_id \in DOMAIN services => last'.status = 400
             /\ last'.req.service_id \notin DOMAIN services => last'.status = 404
      ]_vars

\* C3 witness: a create_appointment for a held slot was answered 400.
C3_Witness ==
    /\ last.op = "create_appointment"
    /\ last.status = 400
    /\ ActiveAt(appointments, last.req.barber_id, last.req.appointment_date) # {}
    /\ last.req.service_id \in DOMAIN services

\* C4: when r was the only confirmada reserva of its (fecha, hora) and has
\* just been cancelled, the create_reserva that follows for the same
\* (fecha, hora) succeeds and stores a new confirmada row, and r stays
\* stored as cancelada.
C4_CancelFreesSlot ==
    [][ ( /\ last.op = "cancel_reserva"
          /\ last.status = 200
          /\ last.old.estado = "confirmada"
          /\ ConfirmadasAt(reservas, last.old.fecha, last.old.hora) = {}
          /\ last'.op = "create_reserva"
          /\ last'.status # 422
          /\ last'.req.fecha = last.old.fecha
          /\ last'.req.hora = last.old.hora )
        => ( /\ last'.status = 201
             /\ last'.id \notin DOMAIN reservas
             /\ last'.id \in DOMAIN reservas'
             /\ reservas'[last'.id].estado = "confirmada"
             /\ reservas'[last'.id].fecha = last.old.fecha
             /\ reservas'[last'.id].hora = last.old.hora
             /\ last.id \in DOMAIN reservas'
             /\ reservas'[last.id] = [last.old EXCEPT !.estado = "cancelada"] )
      ]_vars

\* C4 witness: a reserva was created on the slot of a cancelled one.
C4_Witness ==
    /\ last.op = "create_reserva"
    /\ last.status = 201
    /\ \E i \in DOMAIN reservas :
          /\ i # last.id
          /\ reservas[i].estado = "cancelada"
          /\ reservas[i].fecha = last.req.fecha
          /\ reservas[i].hora = last.req.hora
    /\ ConfirmadasAt(reservas, last.req.fecha, last.req.hora) = {last.id}

\* C5: right after an appointment was cancelled (by DELETE or by an update
\* of its status), a create_appointment for the same (barber_id,
\* appointment_date) with a stored barber and a stored service succeeds and
\* is persisted.
C5_CancelFreesAppointmentSlot ==
    [][ ( /\ last.op \in {"delete_appointment", "update_appointment"}
          /\ last.status \in {200, 204}
          /\ appointments[last.id].status = "cancelled"
          /\ last'.op = "create_appointment"
          /\ last'.req.barber_id = appointments[last.id].barber_id
          /\ last'.req.appointment_date = appointments[last.id].appointment_date
          /\ last'.req.barber_id \in DOMAIN barbers
          /\ last'.req.service_id \in DOMAIN services )
        => ( /\ last'.status = 201
             /\ last'.id \in DOMAIN appointments' \ DOMAIN appointments )
      ]_vars

\* The update_reserva request named a stored reserva and passed validation.
UpdateReservaRan ==
    /\ last'.op = "update_reserva"
    /\ last'.id \in DOMAIN reservas

\* The (fecha, hora) an update_reserva request asks for: a component it does
\* not supply is the stored one.
AskedFecha ==
    IF "fecha" \in DOMAIN last'.req THEN last'.req.fecha
                                    ELSE reservas[last'.id].fecha
AskedHora ==
    IF "hora" \in DOMAIN last'.req THEN last'.req.hora
                                   ELSE reservas[last'.id].hora

\* C6: an update_reserva that supplies fecha and/or hora and whose resulting
\* (fecha, hora) is held by a different confirmada reserva answers 400 and
\* changes no row.
C6_UpdateOntoHeldSlot ==
    [][ ( /\ UpdateReservaRan
          /\ ("fecha" \in DOMAIN last'.req \/ "hora" \in DOMAIN last'.req)
          /\ ConfirmadasAt(reservas, AskedFecha, AskedHora) \ {last'.id} # {} )
        => (last'.status = 400 /\ UNCHANGED reserva_vars) ]_vars

\* C6 witness: an update that supplied only hora was answered 400 because
\* another confirmada reserva holds (stored fecha, new hora).
C6_Witness ==
    /\ last.op = "update_reserva"
    /\ last.status = 400
    /\ DOMAIN last.req = {"hora"}
    /\ last.req.hora # reservas[last.id].hora
    /\ ConfirmadasAt(reservas, reservas[last.id].fecha, last.req.hora)
          \ {last.id} # {}

\* C7: an update_reserva that supplies the reserva's own current fecha and
\* hora succeeds when no other confirmada reserva holds that (fecha, hora).
C7_SelfExclusion ==
    [][ ( /\ UpdateReservaRan
          /\ {"fecha", "hora"} \subseteq DOMAIN last'.req
          /\ last'.req.fecha = reservas[last'.id].fecha
          /\ last'.req.hora = reservas[last'.id].hora
          /\ ConfirmadasAt(reservas, AskedFecha, AskedHora) \ {last'.id} = {} )
        => ( /\ last'.status = 200
             /\ reservas'[last'.id].fecha = reservas[last'.id].fecha
             /\ reservas'[last'.id].hora = reservas[last'.id].hora ) ]_vars

\* C7 witness: a confirmada reserva was updated to its own fecha and hora.
C7_Witness ==
    /\ last.op = "update_reserva"
    /\ last.status = 200
    /\ DOMAIN last.req = {"fecha", "hora"}
    /\ last.old.estado = "confirmada"
    /\ last.req.fecha = last.old.fecha
    /\ last.req.hora = last.old.hora
    /\ reservas[last.id] = last.old

\* The (barber_id, appointment_date) an update_appointment request asks for.
AskedBarber ==
    IF "barber_id" \in DOMAIN last'.req THEN last'.req.barber_id
                                        ELSE appointments[last'.id].barber_id
AskedDate ==
    IF "appointment_date" \in DOMAIN last'.req
    THEN last'.req.appointment_date
    ELSE appointments[last'.id].appointment_date

\* C8: an update_appointment that changes appointment_date or barber_id so
\* that the resulting pair is held by a different appointment that is not
\* cancelled answers 400 and leaves the appointment unchanged.
C8_UpdateAppointmentConflictIs400 ==
    [][ ( /\ last'.op = "update_appointment"
          /\ last'.id \in DOMAIN appointments
          /\ \/ AskedBarber # appointments[last'.id].barber_id
             \/ AskedDate # appointments[last'.id].appointment_date
          /\ ActiveAt(appointments, AskedBarber, AskedDate) \ {last'.id} # {} )
        => (last'.status = 400 /\ UNCHANGED cita_vars) ]_vars

\* The grid slots no confirmada reserva of the date holds, in grid order.
FreeGridSlots(db, fecha) ==
    LET Libre(h) == ConfirmadasAt(db, fecha, h) = {}
    IN  SelectSeq(horarios_posibles, Libre)

\* C9: consultar_disponibilidad(fecha) returns, in ascending order, exactly
\* the slots of the 22-slot grid 09:00, 09:30, ..., 19:30 that are not the
\* hora of a confirmada reserva of that fecha.
C9_DisponibilidadExacta ==
    last.op = "consultar_disponibilidad"
        => last.result = FreeGridSlots(reservas, last.req.fecha)

\* C10: delete_reserva on an id that is not stored answers 404 and changes
\* nothing; on a stored id it removes that row and no other; an id that was
\* assigned and is no longer stored never comes back, and get_reserva on it
\* answers 404.
C10_DeleteReserva ==
    [][ /\ (last'.op = "delete_reserva" /\ last'.id \notin DOMAIN reservas)
            => (last'.status = 404 /\ UNCHANGED reserva_vars)
        /\ (last'.op = "delete_reserva" /\ last'.id \in DOMAIN reservas)
            => ( /\ last'.status = 200
                 /\ DOMAIN reservas' = DOMAIN reservas \ {last'.id}
                 /\ \A i \in DOMAIN reservas' : reservas'[i] = reservas[i] )
        /\ \A i \in 1..(next_reserva_id - 1) :
                i \notin DOMAIN reservas => i \notin DOMAIN reservas'
        /\ (last'.op = "get_reserva" /\ last'.id \notin DOMAIN reservas)
            => last'.status = 404
      ]_vars

\* C10 witness: get_reserva on the id of a deleted reserva answered 404
\* while another reserva is still stored.
C10_Witness ==
    /\ last.op = "get_reserva"
    /\ last.status = 404
    /\ last.id < next_reserva_id
    /\ last.id \notin DOMAIN reservas
    /\ DOMAIN reservas # {}

OnlySuppliedFieldsChanged(db, db2) ==
    /\ DOMAIN db2 = DOMAIN db
    /\ \A i \in DOMAIN db \ {last'.id} : db2[i] = db[i]
    /\ db2[last'.id].id = last'.id
    /\ \A field \in DOMAIN db[last'.id] :
          db2[last'.id][field] =
              IF field \in DOMAIN last'.req THEN last'.req[field]
                                            ELSE db[last'.id][field]

C13_CreateAppointmentOrder ==
    [][ last'.op = "create_appointment" =>
          /\ ( \/ last'.req.barber_id \notin DOMAIN barbers
               \/ last'.req.service_id \notin DOMAIN services )
              => (last'.status = 404 /\ UNCHANGED cita_vars)
          /\ ( /\ last'.req.barber_id \in DOMAIN barbers
               /\ last'.req.service_id \in DOMAIN services
               /\ ActiveAt(appointments, last'.req.barber_id,
                           last'.req.appointment_date) # {} )
              => (last'.status = 400 /\ UNCHANGED cita_vars)
          /\ last'.status # 201 => UNCHANGED cita_vars
          /\ last'.status = 400 =>
                ActiveAt(appointments, last'.req.barber_id,
                         last'.req.appointment_date) # {}
      ]_vars

\* C13 witness: a create_appointment that named a service that is not
\* stored, for a slot a live appointment holds, was answered 404.
C13_Witness ==
    /\ last.op = "create_appointment"
    /\ last.status = 404
    /\ last.req.barber_id \in DOMAIN barbers
    /\ last.req.service_id \notin DOMAIN services
    /\ ActiveAt(appointments, last.req.barber_id, last.req.appointment_date) # {}

\* C14: cancel_reserva on a stored id answers 200, keeps the row stored with
\* the same id, nombre_cliente, email, fecha, hora, servicio and created_at,
\* sets its estado to cancelada and changes no other reserva; on an id that
\* is not stored it answers 404 and changes nothing.
C14_CancelOnlyFlipsEstado ==
    [][ last'.op = "cancel_reserva" =>
          /\ last'.id \in DOMAIN reservas
              => ( /\ last'.status = 200
                   /\ DOMAIN reservas' = DOMAIN reservas
                   /\ \A i \in DOMAIN reservas \ {last'.id} :
                         reservas'[i] = reservas[i]
                   /\ reservas'[last'.id].estado = "cancelada"
                   /\ \A field \in {"id", "nombre_cliente", "email", "fecha",
                                     "hora", "servicio", "created_at"} :
                         reservas'[last'.id][field] = reservas[last'.id][field]
                   /\ UNCHANGED next_reserva_id )
          /\ last'.id \notin DOMAIN reservas
              => (last'.status = 404 /\ UNCHANGED reserva_vars)
      ]_vars

\* C14 witness: a confirmada reserva was cancelled while another confirmada
\* reserva is stored; it is still stored, with its slot and its client.
C14_Witness ==
    /\ last.op = "cancel_reserva"
    /\ last.status = 200
    /\ last.old.estado = "confirmada"
    /\ reservas[last.id] = [last.old EXCEPT !.estado = "cancelada"]
    /\ \E i \in DOMAIN reservas : i # last.id /\ reservas[i].estado = "confirmada"

\* C15: with the duplicate check and the insert of create_reserva as
\* separate steps of two concurrent requests, the insert step of a request
\* that passed the check commits its confirmada row whatever was committed
\* since the check; so two requests for one (fecha, hora) that both pass the
\* check both commit, and two confirmada reservas share the slot (the
\* witness).
C15_InsertAfterCheckAlwaysCommits ==
    [][ \A w \in Workers :
          (in_flight[w].pc = "checked" /\ in_flight'[w].pc = "idle")
          => ( /\ last'.op = "create_reserva"
               /\ last'.status = 201
               /\ last'.id \notin DOMAIN reservas
               /\ DOMAIN reservas' = DOMAIN reservas \cup {last'.id}
               /\ reservas'[last'.id].fecha = in_flight[w].req.fecha
               /\ reservas'[last'.id].hora = in_flight[w].req.hora
               /\ reservas'[last'.id].estado = "confirmada"
               /\ \A i \in DOMAIN reservas : reservas'[i] = reservas[i] )
      ]_vars

\* C15 witness: both requests passed the check and both committed: two
\* confirmada reservas share one (fecha, hora).
C15_Witness ==
    /\ last.op = "create_reserva"
    /\ last.status = 201
    /\ \E i \in DOMAIN reservas :
          /\ i # last.id
          /\ reservas[i].estado = "confirmada"
          /\ reservas[last.id].estado = "confirmada"
          /\ reservas[i].fecha = reservas[last.id].fecha
          /\ reservas[i].hora = reservas[last.id].hora

\* C16: in every interleaving of the check steps and the insert steps of
\* concurrent create_appointment requests, no two stored appointments have
\* the same (barber_id, appointment_date), and an insert step answers 201
\* only when no stored appointment has its pair.
C16_OneRowPerBarberAndDate ==
    /\ \A i, j \in DOMAIN appointments :
          ( /\ appointments[i].barber_id = appointments[j].barber_id
            /\ appointments[i].appointment_date = appointments[j].appointment_date )
          => i = j
    /\ (last.op = "create_appointment" /\ last.status = 500)
          => \E i \in DOMAIN appointments :
                /\ appointments[i].barber_id = last.req.barber_id
                /\ appointments[i].appointment_date = last.req.appointment_date

\* C16 witness: a request that had passed the check was refused at its
\* commit, because the other request committed the pair in between.
C16_Witness ==
    /\ last.op = "create_appointment"
    /\ last.status = 500
    /\ \E i \in DOMAIN appointments :
          /\ appointments[i].barber_id = last.req.barber_id
          /\ appointments[i].appointment_date = last.req.appointment_date
          /\ appointments[i].status # "cancelled"

\* C17: verify_session(token) answers 200 exactly when the token is in the
\* session table and the time is not later than its issue time plus 8
\* hours; a token enters the table only by a login with the admin password,
\* which hands out a token never handed out before; a login with another
\* password answers 401 and adds no session; a token that verify_session
\* has refused, or that was logged out, is not in the table and never
\* enters it again, so it is never accepted again.
C17_SessionValidity ==
    [][ /\ last'.op = "verify_session" =>
             ( last'.status = 200 <=>
                 /\ last'.id \in DOMAIN active_sessions
                 /\ now <= active_sessions[last'.id].created_at + 8 )
        /\ \A t \in DOMAIN active_sessions' \ DOMAIN active_sessions :
             /\ last'.op = "login"
             /\ last'.req.password = "admin-secret"
             /\ last'.status = 200
             /\ last'.id = t
             /\ t >= next_token
             /\ active_sessions'[t].created_at = now
        /\ (last'.op = "login" /\ last'.req.password # "admin-secret")
             => (last'.status = 401 /\ UNCHANGED <<active_sessions, next_token>>)
        /\ ( /\ last'.op \in {"verify_session", "logout"}
             /\ last'.op = "verify_session" => last'.status = 401 )
             => last'.id \notin DOMAIN active_sessions'
        /\ next_token' >= next_token
      ]_vars

\* C17 witness: a token was accepted exactly 8 hours after its login.
C17_Witness ==
    /\ last.op = "verify_session"
    /\ last.status = 200
    /\ last.id \in DOMAIN active_sessions
    /\ now = active_sessions[last.id].created_at + 8

\* C18: a token enters active_sessions only by a successful login; it
\* leaves the table only by a logout of that token or by a verify_session
\* of that token after its expiry, and until then its entry does not
\* change, however long ago it expired; the verify_session that reports an
\* expired token removes it, so the next verify_session of that token
\* reports an invalid token.
C18_SessionLifecycle ==
    [][ /\ \A t \in DOMAIN active_sessions' \ DOMAIN active_sessions :
             last'.op = "login" /\ last'.status = 200 /\ last'.id = t
        /\ \A t \in DOMAIN active_sessions \ DOMAIN active_sessions' :
             \/ last'.op = "logout" /\ last'.id = t
             \/ /\ last'.op = "verify_session"
                /\ last'.id = t
                /\ now > active_sessions[t].expires_at
        /\ \A t \in DOMAIN active_sessions \cap DOMAIN active_sessions' :
             active_sessions'[t] = active_sessions[t]
        /\ (last'.op = "verify_session" /\ last'.result = "Token expirado")
             => ( /\ last'.id \in DOMAIN active_sessions
                  /\ last'.id \notin DOMAIN active_sessions' )
        /\ ( /\ last.op = "verify_session"
             /\ last.result = "Token expirado"
             /\ last'.op = "verify_session"
             /\ last'.id = last.id )
             => (last'.status = 401 /\ last'.result = "Token inválido")
        /\ (last'.op = "verify_session" /\ last'.id \notin DOMAIN active_sessions)
             => (last'.status = 401 /\ last'.result = "Token inválido")
      ]_vars

\* C18 witness: one expired token has just been pruned by verify_session
\* while another token, expired as well and never verified since, is still
\* in the table.
C18_Witness ==
    /\ last.op = "verify_session"
    /\ last.result = "Token expirado"
    /\ last.id \notin DOMAIN active_sessions
    /\ \E t \in DOMAIN active_sessions : now > active_sessions[t].expires_at

\* C19: whatever the status s of a stored booking and whatever the status t
\* an update supplies, the update is not refused because of the pair (s, t):
\* an update that supplies only the status is accepted, and every accepted
\* update that supplies a status leaves the booking with status t
\* (appointments: pending, confirmed, completed, cancelled; reservas:
\* confirmada, cancelada; an update_reserva that also moves the reserva is
\* refused only for a held slot).
C19_AnyStatusTransition ==
    [][ /\ ( /\ last'.op = "update_appointment"
             /\ last'.id \in DOMAIN appointments
             /\ "status" \in DOMAIN last'.req )
            => ( /\ DOMAIN last'.req = {"status"} => last'.status = 200
                 /\ last'.status = 200
                      => appointments'[last'.id].status = last'.req.status )
        /\ ( /\ UpdateReservaRan
             /\ "estado" \in DOMAIN last'.req )
            => ( /\ DOMAIN last'.req = {"estado"} => last'.status = 200
                 /\ last'.status = 200
                      => reservas'[last'.id].estado = last'.req.estado
                 /\ last'.status # 200
                      => ( /\ last'.status = 400
                           /\ ConfirmadasAt(reservas, AskedFecha, AskedHora)
                                 \ {last'.id} # {} ) )
      ]_vars

\* C19 witness: an update took an appointment from completed back to
\* pending.
C19_Witness ==
    /\ last.op = "update_appointment"
    /\ last.status = 200
    /\ last.old.status = "completed"
    /\ last.req = [status |-> "pending"]
    /\ appointments[last.id].status = "pending"

\* The stored reservas that match the filters of the last listing.
Listed ==
    { i \in DOMAIN reservas :
        /\ last.req.fecha # {} => reservas[i].fecha \in last.req.fecha
        /\ last.req.estado # {} => reservas[i].estado \in last.req.estado }

\* An hora "HH:MM" as the number HHMM.
HoraNumber(h) == 1000 * h[1] + 100 * h[2] + 10 * h[3] + h[4]

\* Row a comes strictly before row b by fecha descending, hora descending.
LaterSlot(a, b) ==
    \/ a.fecha > b.fecha
    \/ a.fecha = b.fecha /\ HoraNumber(a.hora) > HoraNumber(b.hora)

\* C20: a listing that is answered 200 returns stored reservas that match
\* every supplied filter, none twice, ordered by fecha descending then hora
\* descending; they are the results skip+1 .. skip+limit of that order (as
\* many of them as exist); total is the number of stored reservas that match
\* the filters, whatever skip and limit are.
C20_ListarReservasExacta ==
    (last.op = "listar_reservas" /\ last.status = 200) =>
        LET lista == last.result.reservas
            n == Cardinality(Listed)
            rest == IF n > last.req.skip THEN n - last.req.skip ELSE 0
        IN  /\ last.result.total = n
            /\ Len(lista) = IF rest < last.req.limit THEN rest ELSE last.req.limit
            /\ \A k \in 1..Len(lista) :
                  /\ lista[k].id \in Listed
                  /\ lista[k] = reservas[lista[k].id]
                  /\ \A l \in (k + 1)..Len(lista) :
                        /\ lista[l].id # lista[k].id
                        /\ ~LaterSlot(lista[l], lista[k])
                  /\ Cardinality({ i \in Listed : LaterSlot(reservas[i], lista[k]) })
                        <= last.req.skip + k - 1
                  /\ Cardinality({ i \in Listed : ~LaterSlot(lista[k], reservas[i]) })
                        >= last.req.skip + k

\* C20 witness: with two matching reservas on different dates, a listing
\* with skip 1 and limit 1 under a filter on estado returned the one of the
\* earlier date, and total is 2.
C20_Witness ==
    /\ last.op = "listar_reservas"
    /\ last.status = 200
    /\ last.req.skip = 1
    /\ last.req.limit = 1
    /\ last.req.estado = {"confirmada"}
    /\ last.result.total = 2
    /\ Len(last.result.reservas) = 1
    /\ \E i \in DOMAIN reservas :
          reservas[i].fecha > last.result.reservas[1].fecha

\* C21: after every request every stored appointment references a stored
\* barber and a stored service; a delete_barber (delete_service) of a stored
\* id answers 204, removes that barber (service) and exactly the
\* appointments that reference it, and changes nothing else.
C21_ReferentialIntegrity ==
    [][ /\ \A i \in DOMAIN appointments' :
             /\ appointments'[i].barber_id \in DOMAIN barbers'
             /\ appointments'[i].service_id \in DOMAIN services'
        /\ (last'.op = "delete_barber" /\ last'.id \in DOMAIN barbers)
             => ( /\ last'.status = 204
                  /\ DOMAIN barbers' = DOMAIN barbers \ {last'.id}
                  /\ \A b \in DOMAIN barbers' : barbers'[b] = barbers[b]
                  /\ DOMAIN appointments' =
                        { i \in DOMAIN appointments :
                            appointments[i].barber_id # last'.id }
                  /\ \A i \in DOMAIN appointments' :
                        appointments'[i] = appointments[i]
                  /\ UNCHANGED services )
        /\ (last'.op = "delete_service" /\ last'.id \in DOMAIN services)
             => ( /\ last'.status = 204
                  /\ DOMAIN services' = DOMAIN services \ {last'.id}
                  /\ \A v \in DOMAIN services' : services'[v] = services[v]
                  /\ DOMAIN appointments' =
                        { i \in DOMAIN appointments :
                            appointments[i].service_id # last'.id }
                  /\ \A i \in DOMAIN appointments' :
                        appointments'[i] = appointments[i]
                  /\ UNCHANGED barbers )
      ]_vars

\* C21 witness: a barber was deleted after two appointments had been
\* created; its appointment went with it and the appointment of the other
\* barber is still stored.
C21_Witness ==
    /\ last.op = "delete_barber"
    /\ last.status = 204
    /\ last.id \notin DOMAIN barbers
    /\ next_appointment_id = 3
    /\ Cardinality(DOMAIN appointments) = 1
    /\ \A i \in DOMAIN appointments : appointments[i].barber_id \in DOMAIN barbers

\* C22: after every create_barber, update_barber and delete_barber no two
\* stored barbers have the same name, and a create_barber with a name that
\* is already stored answers 400 and adds no barber.
C22_BarberNamesUnique ==
    [][ /\ \A i, j \in DOMAIN barbers' :
             barbers'[i].name = barbers'[j].name => i = j
        /\ ( /\ last'.op = "create_barber"
             /\ \E i \in DOMAIN barbers : barbers[i].name = last'.req.name )
             => (last'.status = 400 /\ UNCHANGED <<barbers, next_barber_id>>)
      ]_vars

\* C22 witness: an update_barber that would have given a barber the name of
\* another stored barber was refused, and the two names still differ.
C22_Witness ==
    /\ last.op = "update_barber"
    /\ last.status # 200
    /\ last.id \in DOMAIN barbers
    /\ "name" \in DOMAIN last.req
    /\ \E i \in DOMAIN barbers :
          /\ i # last.id
          /\ barbers[i].name = last.req.name
          /\ barbers[last.id].name # last.req.name

\* C23: an update_barber or update_service that renames a record to the
\* name of a different stored record answers 400 and changes no record.
C23_RenameConflictIs400 ==
    [][ /\ ( /\ last'.op = "update_barber"
             /\ last'.id \in DOMAIN barbers
             /\ "name" \in DOMAIN last'.req
             /\ \E i \in DOMAIN barbers \ {last'.id} :
                   barbers[i].name = last'.req.name )
             => (last'.status = 400 /\ UNCHANGED barbers)
        /\ ( /\ last'.op = "update_service"
             /\ last'.id \in DOMAIN services
             /\ "name" \in DOMAIN last'.req
             /\ \E i \in DOMAIN services \ {last'.id} :
                   services[i].name = last'.req.name )
             => (last'.status = 400 /\ UNCHANGED services)
      ]_vars

\* The hora of a create or update request is outside 09:00..19:59, or its
\* fecha is before the current day.
OutsideHoursOrPast(req) ==
    \/ /\ "hora" \in DOMAIN req
       /\ (HoraNumber(req.hora) < 900 \/ HoraNumber(req.hora) >= 2000)
    \/ /\ "fecha" \in DOMAIN req
       /\ req.fecha < today

GridSlot(hora) == \E k \in DOMAIN horarios_posibles : horarios_posibles[k] = hora

\* C25: when a consultar_disponibilidad(fecha) is followed at once by a
\* create_reserva for a grid slot of that fecha, and the fecha is not in the
\* past, the create answers 201 if the slot was in the answer of the query
\* and 400 if it was not.
C25_OfferedIffBookable ==
    [][ ( /\ last.op = "consultar_disponibilidad"
          /\ last'.op = "create_reserva"
          /\ last'.req.fecha = last.req.fecha
          /\ last'.req.fecha >= today
          /\ GridSlot(last'.req.hora) )
        => IF \E k \in DOMAIN last.result : last.result[k] = last'.req.hora
           THEN last'.status = 201
           ELSE last'.status = 400
      ]_vars

C27_SessionsIndependent ==
    [][ /\ last'.op = "logout" =>
             /\ last'.status = 200
             /\ DOMAIN active_sessions' = DOMAIN active_sessions \ {last'.id}
             /\ last'.id \notin DOMAIN active_sessions
                 => active_sessions' = active_sessions
        /\ \A t \in DOMAIN active_sessions \ {last'.id} :
             /\ t \in DOMAIN active_sessions'
             /\ active_sessions'[t] = active_sessions[t]
        /\ last'.op = "login" =>
             \A t \in DOMAIN active_sessions :
                 /\ t \in DOMAIN active_sessions'
                 /\ active_sessions'[t] = active_sessions[t]
      ]_vars

\* C27 witness: a token that was issued and has no entry any more was logged
\* out again, while the session of the other login is still in the table
\* with the 8 hours it was given.
C27_Witness ==
    /\ last.op = "logout"
    /\ last.status = 200
    /\ last.id < next_token
    /\ last.old = NoSession
    /\ \E t \in DOMAIN active_sessions :
          /\ t # last.id
          /\ active_sessions[t].expires_at = active_sessions[t].created_at + 8

====
